---------------------------- MODULE Spec2Model ----------------------------
(***************************************************************************)
(* A model of guild/op.py: the Operation run lifecycle (Operation.run and  *)
(* its steps), the command builder (_init_cmd_args, _init_cmd_env) and     *)
(* the operation-reference codec (OpRef.from_op / from_run / from_string / *)
(* __str__).                                                               *)
(*                                                                         *)
(* Text is modelled as a sequence of one-character strings, so that the    *)
(* regular expressions and the string formatting of the source are         *)
(* computed character by character.  Python's None is the value None       *)
(* below, which is no text (its only element is not a character).          *)
(***************************************************************************)
EXTENDS Integers, Sequences, FiniteSets, TLC

VARIABLES
    codec,      \* the codec specification's input and results
    host,       \* what the collaborators answer: environment, plugins, paths
    inputs,     \* per Operation: the (model, opdef) it is constructed from
    ops,        \* per Operation: the object's fields
    pc,         \* per Operation: the position of its run() call
    results,    \* per Operation: what each run() call returned or raised
    fs,         \* the run directories, by path
    procs,      \* the child processes, by pid
    clock,      \* int(time.time())
    ids         \* the calls of unique_run_id() so far: who made each

vars == <<codec, host, inputs, ops, pc, results, fs, procs, clock, ids>>

life_vars == <<host, inputs, ops, pc, results, fs, procs, clock, ids>>

-----------------------------------------------------------------------------
(* Bounds of the model *)

\* longest text of an OpRef field drawn by the codec specification
MaxFieldLen == 1

\* run() calls made on one Operation
MaxCalls == 2

\* the clock's last value
MaxClock == 1

\* child exit codes range over -MaxExit..MaxExit
MaxExit == 1

\* most tokens of a command template drawn by the command-builder
\* specification
MaxCmdLen == 2

\* longest text given to OpRef.from_string
MaxRefLen == 5

\* most entries of a disabled-plugin list of a drawn definition
MaxDisabled == 1

-----------------------------------------------------------------------------
(* Text helpers *)

None == <<"<None>">>

\* Python truthiness of an optional text: None and "" are falsy
Truthy(x) == x # None /\ x # <<>>

\* the characters \s matches in a str pattern of Python's re: those of
\* str.isspace.  A TLA+ string holds no vertical tab and only ASCII, so the
\* vertical tab is "<VT>" here, the separators 0x1c..0x1f "<FS>", "<GS>",
\* "<RS>", "<US>", and a space outside ASCII "<U+....>" by its code point.
Whitespace ==
    {" ", "\t", "\n", "\r", "\f", "<VT>", "<FS>", "<GS>", "<RS>", "<US>",
     "<U+0085>", "<U+00A0>", "<U+1680>", "<U+2000>", "<U+2001>", "<U+2002>",
     "<U+2003>", "<U+2004>", "<U+2005>", "<U+2006>", "<U+2007>", "<U+2008>",
     "<U+2009>", "<U+200A>", "<U+2028>", "<U+2029>", "<U+202F>", "<U+205F>",
     "<U+3000>"}

Min(S) == CHOOSE x \in S : \A y \in S : x <= y

\* all texts over the alphabet A of length at most n
TextsUpTo(A, n) == UNION {[1..k -> A] : k \in 0..n}

\* s[i..j-1], the slice s[i:j] of Python shifted to 1-based indices
Slice(s, i, j) == SubSeq(s, i, j - 1)

\* the index after the maximal run of characters not in excl that starts
\* at index i: what a greedy [^...]+ consumes from i
RunEnd(s, i, excl) ==
    LET stops == {k \in i..Len(s) : s[k] \in excl}
    IN  IF stops = {} THEN Len(s) + 1 ELSE Min(stops)

-----------------------------------------------------------------------------
(* The operation-reference codec *)

\* OpRef = namedtuple(pkg_type, pkg_name, pkg_version, model_name, op_name)
OpRef(pkg_type, pkg_name, pkg_version, model_name, op_name) ==
    <<pkg_type, pkg_name, pkg_version, model_name, op_name>>

\* _opref_from_op(op_name, model_ref)
opref_from_op(op_name, model_ref) ==
    OpRef(model_ref[1], model_ref[2], model_ref[3], model_ref[4], op_name)

\* x or "?"
OrPlaceholder(x) == IF Truthy(x) THEN x ELSE <<"?">>

\* _opref_to_string: "%s:%s %s %s %s"
opref_to_string(opref) ==
    OrPlaceholder(opref[1]) \o <<":">> \o OrPlaceholder(opref[2]) \o <<" ">>
        \o OrPlaceholder(opref[3]) \o <<" ">> \o OrPlaceholder(opref[4])
        \o <<" ">> \o OrPlaceholder(opref[5])

\* the result of a parse that raised OpRefError
OpRefError == [ok |-> FALSE, opref |-> OpRef(None, None, None, None, None)]

\* _opref_from_run applied to the value of run.get("opref"):
\* re.match(r"([^ :]+):([^ ]+) ([^ ]+) ([^ ]+) ([^ ]+)\s*$", opref_attr)
opref_from_run(opref_attr) ==
    IF ~Truthy(opref_attr) THEN OpRefError
    ELSE
    LET a  == opref_attr
        n  == Len(a)
        e1 == RunEnd(a, 1, {" ", ":"})
        e2 == RunEnd(a, e1 + 1, {" "})
        e3 == RunEnd(a, e2 + 1, {" "})
        e4 == RunEnd(a, e3 + 1, {" "})
        e5 == RunEnd(a, e4 + 1, {" "})
    IN  IF /\ e1 > 1      /\ e1 <= n /\ a[e1] = ":"
           /\ e2 > e1 + 1 /\ e2 <= n
           /\ e3 > e2 + 1 /\ e3 <= n
           /\ e4 > e3 + 1 /\ e4 <= n
           /\ e5 > e4 + 1
           /\ \A k \in e5..n : a[k] \in Whitespace
        THEN [ok |-> TRUE,
              opref |-> OpRef(Slice(a, 1, e1), Slice(a, e1 + 1, e2),
                              Slice(a, e2 + 1, e3), Slice(a, e3 + 1, e4),
                              Slice(a, e4 + 1, e5))]
        ELSE OpRefError

\* the characters of [a-zA-Z0-9-_\.]
OpNameChars ==
    {"a", "b", "c", "d", "e", "f", "g", "h", "i", "j", "k", "l", "m",
     "n", "o", "p", "q", "r", "s", "t", "u", "v", "w", "x", "y", "z",
     "A", "B", "C", "D", "E", "F", "G", "H", "I", "J", "K", "L", "M",
     "N", "O", "P", "Q", "R", "S", "T", "U", "V", "W", "X", "Y", "Z",
     "0", "1", "2", "3", "4", "5", "6", "7", "8", "9", "-", "_", "."}

\* what OpRef.from_string raises
OpRefStringError ==
    [ok |-> FALSE, opref |-> OpRef(None, None, None, None, None),
     extra |-> None]

\* (.*)$ applied to the rest of the text: "." matches no line break and "$"
\* matches at the end or before a final line break, so the rest matches
\* when it has no line break but a final one, which is left out of the group
TailExtra(rest) ==
    [ok |-> \A k \in 1..Len(rest) - 1 : rest[k] # "\n",
     extra |-> IF rest # <<>> /\ rest[Len(rest)] = "\n"
               THEN SubSeq(rest, 1, Len(rest) - 1)
               ELSE rest]

\* _opref_from_string(s):
\* re.match(r"(?:(?:([^/]+)/)?([^:]+):)?([a-zA-Z0-9-_\.]+)(.*)$", s).
\* The matcher tries, in this order, the qualifier with a package, the
\* qualifier without one, and no qualifier; each [^x]+ is a maximal run,
\* and a shorter one cannot be followed by x.
opref_from_string(s) ==
    LET n == Len(s)
        \* ([a-zA-Z0-9-_\.]+)(.*)$ from index i, under the groups pkg, model
        OpAt(i, pkg, model) ==
            LET e == RunEnd(s, i, {s[k] : k \in 1..n} \ OpNameChars)
                tail == TailExtra(Slice(s, e, n + 1))
            IN  IF e > i /\ tail.ok
                THEN [ok |-> TRUE,
                      opref |-> OpRef(None, pkg, None, model, Slice(s, i, e)),
                      extra |-> tail.extra]
                ELSE OpRefStringError
        p1 == RunEnd(s, 1, {"/"})
        m1 == RunEnd(s, p1 + 1, {":"})
        m2 == RunEnd(s, 1, {":"})
        with_pkg ==
            IF p1 > 1 /\ p1 <= n /\ m1 > p1 + 1 /\ m1 <= n
            THEN OpAt(m1 + 1, Slice(s, 1, p1), Slice(s, p1 + 1, m1))
            ELSE OpRefStringError
        with_model ==
            IF m2 > 1 /\ m2 <= n
            THEN OpAt(m2 + 1, None, Slice(s, 1, m2))
            ELSE OpRefStringError
    IN  IF with_pkg.ok THEN with_pkg
        ELSE IF with_model.ok THEN with_model
        ELSE OpAt(1, None, None)

-----------------------------------------------------------------------------
(* Text ordering and number formatting *)

\* the printable ASCII characters in code-point order, from 32 (space) on
\* (the backtick, which a TLA+ string cannot hold, keeps its place)
Printable ==
    <<" ", "!", "\"", "#", "$", "%", "&", "'", "(", ")", "*", "+", ",", "-",
      ".", "/", "0", "1", "2", "3", "4", "5", "6", "7", "8", "9", ":", ";",
      "<", "=", ">", "?", "@", "A", "B", "C", "D", "E", "F", "G", "H", "I",
      "J", "K", "L", "M", "N", "O", "P", "Q", "R", "S", "T", "U", "V", "W",
      "X", "Y", "Z", "[", "\\", "]", "^", "_", "<backtick>", "a", "b", "c", "d", "e",
      "f", "g", "h", "i", "j", "k", "l", "m", "n", "o", "p", "q", "r", "s",
      "t", "u", "v", "w", "x", "y", "z", "{", "|", "}", "~">>

\* the spaces outside ASCII that the model names, with their code points
UnicodeSpaces ==
    <<<<"<U+0085>", 133>>, <<"<U+00A0>", 160>>, <<"<U+1680>", 5760>>,
       <<"<U+2000>", 8192>>, <<"<U+2001>", 8193>>, <<"<U+2002>", 8194>>,
       <<"<U+2003>", 8195>>, <<"<U+2004>", 8196>>, <<"<U+2005>", 8197>>,
       <<"<U+2006>", 8198>>, <<"<U+2007>", 8199>>, <<"<U+2008>", 8200>>,
       <<"<U+2009>", 8201>>, <<"<U+200A>", 8202>>, <<"<U+2028>", 8232>>,
       <<"<U+2029>", 8233>>, <<"<U+202F>", 8239>>, <<"<U+205F>", 8287>>,
       <<"<U+3000>", 12288>>>>

\* ord(c)
CharCode(c) ==
    CASE c = "\t" -> 9
      [] c = "\n" -> 10
      [] c = "<VT>" -> 11
      [] c = "\f" -> 12
      [] c = "\r" -> 13
      [] c = "<FS>" -> 28
      [] c = "<GS>" -> 29
      [] c = "<RS>" -> 30
      [] c = "<US>" -> 31
      [] \E k \in DOMAIN UnicodeSpaces : UnicodeSpaces[k][1] = c ->
            UnicodeSpaces[CHOOSE k \in DOMAIN UnicodeSpaces :
                                UnicodeSpaces[k][1] = c][2]
      [] OTHER -> 31 + (CHOOSE i \in 1..Len(Printable) : Printable[i] = c)

\* a < b for Python str: lexicographic by code point
TextLess(a, b) ==
    \E k \in 1..(Len(a) + 1) :
        /\ k <= Len(b)
        /\ \A j \in 1..(k - 1) : a[j] = b[j]
        /\ (k = Len(a) + 1 \/ CharCode(a[k]) < CharCode(b[k]))

\* sorted(S) for a set (or the keys of a dict) of texts
RECURSIVE Sorted(_)
Sorted(S) ==
    IF S = {} THEN <<>>
    ELSE LET m == CHOOSE x \in S : \A y \in S \ {x} : TextLess(x, y)
         IN  <<m>> \o Sorted(S \ {m})

Digits == <<"0", "1", "2", "3", "4", "5", "6", "7", "8", "9">>

RECURSIVE NatToText(_)
NatToText(n) ==
    IF n < 10 THEN <<Digits[n + 1]>>
    ELSE NatToText(n \div 10) \o <<Digits[(n % 10) + 1]>>

\* str(n) for an int
IntToText(n) == IF n < 0 THEN <<"-">> \o NatToText(-n) ELSE NatToText(n)

\* sep.join(parts)
RECURSIVE Join(_, _)
Join(sep, parts) ==
    IF parts = <<>> THEN <<>>
    ELSE IF Len(parts) = 1 THEN parts[1]
    ELSE parts[1] \o sep \o Join(sep, Tail(parts))

-----------------------------------------------------------------------------
(* The command builder *)

\* a flag value: None, a str or an int
NoneVal == [kind |-> "none", value |-> 0]
StrVal(t) == [kind |-> "str", value |-> t]
IntVal(n) == [kind |-> "int", value |-> n]

\* str(val)
ValToText(val) ==
    CASE val.kind = "str" -> val.value
      [] val.kind = "int" -> IntToText(val.value)
      [] OTHER -> <<"N", "o", "n", "e">>

\* a command template: a str, a list of str, or a value of another type
CmdStr(t) == [kind |-> "str", text |-> t, list |-> <<>>]
CmdList(l) == [kind |-> "list", text |-> <<>>, list |-> l]
CmdOther == [kind |-> "other", text |-> <<>>, list |-> <<>>]

\* what a call returns: a value, or the exception it raised
Ok(v) == [exc |-> "", value |-> v]
Raise(e) == [exc |-> e, value |-> <<>>]

ShlexWhitespace == {" ", "\t", "\r", "\n"}
ShlexQuotes == {"'", "\""}
ShlexEscape == "\\"

\* shlex.split(s): shlex(s, posix=True), whitespace_split=True, no comments;
\* the loop of shlex.read_token, one character per step.  state is "ws"
\* (shlex's ' '), "word" (shlex's 'a'), a quote character or the escape
\* character; esc is shlex's escapedstate.
RECURSIVE ShlexScan(_, _, _, _, _, _)
ShlexScan(s, i, state, esc, token, out) ==
    IF i > Len(s) THEN
        CASE state = "ws" -> Ok(out)
          [] state = "word" -> Ok(Append(out, token))
          [] OTHER -> Raise("ValueError")
    ELSE
    LET c == s[i] IN
    CASE state = "ws" ->
            IF c \in ShlexWhitespace THEN ShlexScan(s, i + 1, "ws", esc, <<>>, out)
            ELSE IF c = ShlexEscape THEN ShlexScan(s, i + 1, c, "word", <<>>, out)
            ELSE IF c \in ShlexQuotes THEN ShlexScan(s, i + 1, c, esc, <<>>, out)
            ELSE ShlexScan(s, i + 1, "word", esc, <<c>>, out)
      [] state = "word" ->
            IF c \in ShlexWhitespace
            THEN ShlexScan(s, i + 1, "ws", esc, <<>>, Append(out, token))
            ELSE IF c \in ShlexQuotes THEN ShlexScan(s, i + 1, c, esc, token, out)
            ELSE IF c = ShlexEscape THEN ShlexScan(s, i + 1, c, "word", token, out)
            ELSE ShlexScan(s, i + 1, "word", esc, Append(token, c), out)
      [] state \in ShlexQuotes ->
            IF c = state THEN ShlexScan(s, i + 1, "word", esc, token, out)
            ELSE IF c = ShlexEscape /\ state = "\""
            THEN ShlexScan(s, i + 1, c, state, token, out)
            ELSE ShlexScan(s, i + 1, state, esc, Append(token, c), out)
      [] OTHER ->
            IF esc \in ShlexQuotes /\ c # state /\ c # esc
            THEN ShlexScan(s, i + 1, esc, esc, token \o <<state, c>>, out)
            ELSE ShlexScan(s, i + 1, esc, esc, Append(token, c), out)

shlex_split(s) == ShlexScan(s, 1, "ws", "ws", <<>>, <<>>)

\* _split_cmd(cmd)
split_cmd(cmd) ==
    CASE cmd.kind = "str" -> shlex_split(cmd.text)
      [] cmd.kind = "list" -> Ok(cmd.list)
      [] OTHER -> Raise("ValueError")

\* _cmd_options(args): the group of re.match("--([^=]+)", arg), per arg
cmd_options(args) ==
    LET Matches(arg) == Len(arg) >= 3 /\ arg[1] = "-" /\ arg[2] = "-" /\ arg[3] # "="
    IN  {Slice(args[k], 3, RunEnd(args[k], 3, {"="})) :
            k \in {j \in 1..Len(args) : Matches(args[j])}}

\* a faulty _cmd_option_args that always emits a value token
cmd_option_args_valued(name, val) ==
    <<<<"-", "-">> \o name,
      IF val.kind = "none" THEN <<"N", "o", "n", "e">> ELSE ValToText(val)>>

\* _cmd_option_args(name, val)
cmd_option_args(name, val) ==
    LET opt == <<"-", "-">> \o name
    IN  IF val.kind = "none" THEN <<opt>> ELSE <<opt, ValToText(val)>>

\* _flag_args(flags, cmd_args): the loop over sorted(flags)
RECURSIVE FlagArgsLoop(_, _, _)
FlagArgsLoop(names, flags, options) ==
    IF names = <<>> THEN <<>>
    ELSE LET name == Head(names)
             rest == FlagArgsLoop(Tail(names), flags, options)
         IN  IF name \in options THEN rest
             ELSE cmd_option_args(name, flags[name]) \o rest

flag_args(flags, cmd_args) ==
    FlagArgsLoop(Sorted(DOMAIN flags), flags, cmd_options(cmd_args))

\* _python_cmd(opdef)
python_cmd == <<"p", "y", "t", "h", "o", "n">>

\* [_python_cmd(opdef), "-um", "guild.op_main"]
python_args ==
    <<python_cmd, <<"-", "u", "m">>,
      <<"g", "u", "i", "l", "d", ".", "o", "p", "_", "m", "a", "i", "n">> >>

\* _init_cmd_args(opdef)
init_cmd_args(opdef) ==
    LET split == split_cmd(opdef.cmd)
    IN  IF split.exc # "" THEN split
        ELSE IF split.value = <<>> THEN Raise("InvalidCmd")
        ELSE Ok(python_args \o split.value
                    \o flag_args(opdef.flag_values, split.value))

\* a dict updated with one entry: d[key] = value
DictSet(d, key, value) ==
    [k \in DOMAIN d \cup {key} |-> IF k = key THEN value ELSE d[k]]

\* a faulty _plugin_disabled_in_project that forgets the model's list
plugin_disabled_in_opdef(name, opdef) ==
    \E k \in 1..Len(opdef.disabled_plugins) :
        \/ opdef.disabled_plugins[k] = name
        \/ opdef.disabled_plugins[k] = <<"a", "l", "l">>

\* _plugin_disabled_in_project(name, opdef), with "all" the wildcard
plugin_disabled_in_project(name, opdef) ==
    LET disabled == opdef.disabled_plugins \o opdef.modeldef_disabled_plugins
    IN  \E k \in 1..Len(disabled) :
            disabled[k] = name \/ disabled[k] = <<"a", "l", "l">>

\* _op_plugins(opdef): plugins maps each name of guild.plugin.iter_plugins()
\* to the answer of its plugin.enabled_for_op(opdef)
op_plugins(opdef, plugins) ==
    LET enabled == {name \in DOMAIN plugins :
                        IF plugin_disabled_in_project(name, opdef) THEN FALSE
                        ELSE plugins[name]}
    IN  Join(<<",">>, Sorted(enabled))

\* os.path.split(path)[-1]: the text after the last "/"
Basename(path) ==
    LET slashes == {k \in 1..Len(path) : path[k] = "/"}
        last == IF slashes = {} THEN 0
                ELSE CHOOSE k \in slashes : \A j \in slashes : j <= k
    IN  SubSeq(path, last + 1, Len(path))

\* OP_RUNFILES
OP_RUNFILES == {<<"o", "r", "g", "_", "p", "s", "u", "t", "i", "l">>}

\* _is_runfile_pkg(path)
is_runfile_pkg(path) == Basename(path) \in OP_RUNFILES

\* path.split("/")
RECURSIVE SplitSlash(_)
SplitSlash(path) ==
    LET e == RunEnd(path, 1, {"/"})
    IN  IF e > Len(path) THEN <<path>>
        ELSE <<Slice(path, 1, e)>> \o SplitSlash(SubSeq(path, e + 1, Len(path)))

\* head.rstrip("/")
RECURSIVE RStripSlash(_)
RStripSlash(head) ==
    IF head # <<>> /\ head[Len(head)] = "/"
    THEN RStripSlash(SubSeq(head, 1, Len(head) - 1))
    ELSE head

\* os.path.dirname(path): the text up to the last "/", without its final
\* slashes unless it is made of slashes only
dirname(path) ==
    LET head == SubSeq(path, 1, Len(path) - Len(Basename(path)))
    IN  IF \E k \in 1..Len(head) : head[k] # "/" THEN RStripSlash(head)
        ELSE head

\* os.path.normpath(path): the loop over the components, which drops ""
\* and ".", and lets ".." take back the component before it
RECURSIVE NormComps(_, _, _)
NormComps(comps, new_comps, initial_slashes) ==
    IF comps = <<>> THEN new_comps
    ELSE LET comp == Head(comps)
             n == Len(new_comps)
         IN  IF comp \in {<<>>, <<".">>}
             THEN NormComps(Tail(comps), new_comps, initial_slashes)
             ELSE IF \/ comp # <<".", ".">>
                     \/ (initial_slashes = 0 /\ n = 0)
                     \/ (n > 0 /\ new_comps[n] = <<".", ".">>)
             THEN NormComps(Tail(comps), Append(new_comps, comp),
                            initial_slashes)
             ELSE NormComps(Tail(comps),
                            IF n > 0 THEN SubSeq(new_comps, 1, n - 1)
                            ELSE new_comps,
                            initial_slashes)

normpath(path) ==
    IF path = <<>> THEN <<".">>
    ELSE LET starts(k) == Len(path) >= k /\ \A j \in 1..k : path[j] = "/"
             initial_slashes ==
                IF ~starts(1) THEN 0
                ELSE IF starts(2) /\ ~starts(3) THEN 2 ELSE 1
             joined == Join(<<"/">>,
                            NormComps(SplitSlash(path), <<>>, initial_slashes))
             result == [k \in 1..initial_slashes |-> "/"] \o joined
         IN  IF result = <<>> THEN <<".">> ELSE result

\* os.path.abspath(path), with cwd what os.getcwd() returns
abspath(path, cwd) ==
    IF path # <<>> /\ path[1] = "/" THEN normpath(path)
    ELSE IF cwd = <<>> \/ cwd[Len(cwd)] = "/" THEN normpath(cwd \o path)
    ELSE normpath(cwd \o <<"/">> \o path)

\* _model_paths(opdef)
model_paths(opdef, h) == <<abspath(dirname(opdef.modelfile_src), h.cwd)>>

\* _runfile_paths(): h.sys_path is sys.path
runfile_paths(h) ==
    LET kept == SelectSeq(h.sys_path, is_runfile_pkg)
    IN  [k \in 1..Len(kept) |-> abspath(kept[k], h.cwd)]

\* _guild_paths(): h.guild_file is __file__ of guild/op.py
guild_paths(h) ==
    <<abspath(dirname(dirname(h.guild_file)), h.cwd)>> \o runfile_paths(h)

\* _python_path(opdef), on host h
python_path(opdef, h) ==
    Join(<<":">>, model_paths(opdef, h) \o guild_paths(h))

\* _init_cmd_env(opdef): h.environ is guild.util.safe_osenv()
init_cmd_env(opdef, h) ==
    LET e1 == DictSet(h.environ, "GUILD_PLUGINS", op_plugins(opdef, h.plugins))
        e2 == DictSet(e1, "LOG_LEVEL", IntToText(h.log_level))
    IN  DictSet(e2, "PYTHONPATH", python_path(opdef, h))

-----------------------------------------------------------------------------
(* The run lifecycle: state *)

\* Python's None for a field that otherwise holds one value
Nil == <<>>
Some(x) == <<x>>

\* Operation.__init__: the fields of a constructed Operation
NewOperation(cmd_args, cmd_env) ==
    [made |-> "ok", exc |-> "", cmd_args |-> cmd_args, cmd_env |-> cmd_env,
     running |-> FALSE, started |-> Nil, stopped |-> Nil, run |-> Nil,
     proc |-> Nil, exit_status |-> Nil]

\* an Operation whose constructor has not run yet, or has raised exc
NoOperation(made, exc) ==
    [made |-> made, exc |-> exc, cmd_args |-> <<>>, cmd_env |-> <<>>,
     running |-> FALSE, started |-> Nil, stopped |-> Nil, run |-> Nil,
     proc |-> Nil, exit_status |-> Nil]

\* guild.run.Run.init_skel: the run directory right after it
NewRunDir ==
    [resolved |-> FALSE, attrs |-> <<>>, order |-> <<>>, lock |-> None]

\* what a run() call returned, or the exception it raised and the step
\* (the position of the call) that raised it
Returned(v) == [exc |-> "", value |-> v, at |-> "return", k |-> 0]
Raised(e, at, k) == [exc |-> e, value |-> 0, at |-> at, k |-> k]

\* a faulty unique_run_id that repeats itself
unique_run_id_fixed == <<"1">>

\* unique_run_id(): uuid.uuid1().hex, a fresh text per call; the n-th id
\* generated is the text of n
unique_run_id == NatToText(Len(ids) + 1)

\* os.path.join(guild.var.runs_dir(), id)
RunPath(id) == host.runs_dir \o <<"/">> \o id

\* guild.run.Run(id, path)
Run(id, path) == [id |-> id, path |-> path]

\* the run directory of Operation o, once _init_run has set self._run
RunOf(o) == ops[o].run[1]
HasDir(o) == ops[o].run # Nil /\ RunOf(o).path \in DOMAIN fs
DirOf(o) == fs[RunOf(o).path]

\* the child of Operation o, once Popen has returned
ProcOf(o) == procs[ops[o].proc[1]]

\* Run.write_attr(name, val): overwrites the value, and the write is logged
write_attr(dir, name, val) ==
    [dir EXCEPT !.attrs = DictSet(dir.attrs, name, val),
                !.order = Append(dir.order, name)]

\* Operation._opref_attr
opref_attr(input) ==
    opref_to_string(opref_from_op(input.opdef.name, input.model_reference))

\* Operation._proc_args
proc_args(op) ==
    op.cmd_args \o << <<"-", "-", "r", "u", "n", "d", "i", "r">>, op.run[1].path >>

\* a faulty _proc_env: env.setdefault("RUNDIR", path), which keeps a RUNDIR
\* the command environment already carries
proc_env_setdefault(op) ==
    IF "RUNDIR" \in DOMAIN op.cmd_env THEN op.cmd_env
    ELSE DictSet(op.cmd_env, "RUNDIR", op.run[1].path)

\* Operation._proc_env
proc_env(op) == DictSet(op.cmd_env, "RUNDIR", op.run[1].path)

\* proc.pid of the n-th child of the model: the operating system chooses
\* the pids; here they are 30, 31, ..., texts of more than one character
ChildPid(n) == 29 + n

\* what _write_proc_lock writes: str(proc.pid)
LockText(pid) == IntToText(ChildPid(pid))

\* _delete_proc_lock applied to the LOCK file: os.remove raises OSError when
\* the file is absent or cannot be removed (removes is FALSE), and the
\* error is swallowed; the file is left as it was then
delete_proc_lock(lock, removes) ==
    IF lock # None /\ removes THEN None ELSE lock

ExitCodes == (0 - MaxExit)..MaxExit

-----------------------------------------------------------------------------
(* The run lifecycle: the inputs drawn by the specification *)

T_op == <<"o", "p">>
T_lr == <<"l", "r">>
T_gpu == <<"g", "p", "u">>
T_cpu == <<"c", "p", "u">>

\* guild.util.safe_osenv(), with and without an ambient RUNDIR
\* opdef.modelfile.src of the drawn definitions: m/MODEL, relative
ModelFileSrc == <<"m", "/", "M", "O", "D", "E", "L">>

Environs ==
    { [HOME |-> <<"/", "h">>],
      [HOME |-> <<"/", "h">>, RUNDIR |-> <<"/", "o", "l", "d">>] }

Hosts ==
    { [environ |-> e,
       plugins |-> (T_gpu :> TRUE) @@ (T_cpu :> TRUE),
       log_level |-> 20,
       cwd |-> <<"/", "w">>,
       guild_file |-> <<"/", "g", "/", "g", "u", "i", "l", "d", "/", "o", "p", ".", "p", "y">>,
       sys_path |-> << <<"/", "x", "/", ".", "/", "o", "r", "g", "_", "p", "s", "u", "t", "i", "l">>,
                       <<"o", "r", "g", "_", "p", "s", "u", "t", "i", "l">>,
                       <<"/", "y", "/", "o", "r", "g", "_", "p", "s", "u", "t", "i", "l", "/">> >>,
       runs_dir |-> <<"/", "r">>] : e \in Environs }

\* the command templates of the lifecycle's operation definitions:
\* "op --lr=1" (a str, shadowing the flag lr), ["op"] (a list), "", [] and
\* a value that is neither a str nor a list
LifeCmds ==
    { CmdStr(<<"o", "p", " ", "-", "-", "l", "r", "=", "1">>),
      CmdList(<<T_op>>),
      CmdStr(<<>>),
      CmdList(<<>>),
      CmdOther }

LifeOpDefs ==
    { [name |-> T_op, modelfile_src |-> ModelFileSrc, cmd |-> c,
       flag_values |-> (T_lr :> IntVal(2)) @@ (<<"b">> :> NoneVal),
       disabled_plugins |-> <<T_gpu>>,
       modeldef_disabled_plugins |-> <<>>] : c \in LifeCmds }

\* model.reference: (pkg_type, pkg_name, pkg_version, model_name)
LifeModelRefs ==
    { << <<"t">>, <<"p">>, <<"1">>, <<"m">> >>,
      << None, None, None, <<"m">> >> }

LifeInputs ==
    { [model_reference |-> r, opdef |-> d] : r \in LifeModelRefs, d \in LifeOpDefs }

-----------------------------------------------------------------------------
(* The run lifecycle: Operation.__init__ and the steps of Operation.run    *)

\* the position of a run() call: the step it is about to take and, within
\* _init_attrs and _finalize_attrs, which write_attr comes next
At(step) == [at |-> step, k |-> 0]
AtAttr(step, k) == [at |-> step, k |-> k]
Idle == At("idle")

\* the call of Operation o raises e at its current step: the exception
\* propagates out of run()
Propagate(o, e) ==
    /\ pc' = [pc EXCEPT ![o] = Idle]
    /\ results' = [results EXCEPT ![o] = Append(@, Raised(e, pc[o].at, pc[o].k))]

\* Operation(model, opdef)
Construct(o) ==
    /\ ops[o].made = "no"
    /\ LET args == init_cmd_args(inputs[o].opdef)
       IN  ops' = [ops EXCEPT ![o] =
                IF args.exc # "" THEN NoOperation("raised", args.exc)
                ELSE NewOperation(args.value,
                                  init_cmd_env(inputs[o].opdef, host))]
    /\ UNCHANGED <<codec, host, inputs, pc, results, fs, procs, clock, ids>>

\* a faulty run() without the assertion of line 55
run_enter_no_assert(o) ==
    /\ pc[o] = Idle
    /\ ops[o].made = "ok"
    /\ Len(results[o]) < MaxCalls
    /\ ops' = [ops EXCEPT ![o].running = TRUE, ![o].started = Some(clock)]
    /\ pc' = [pc EXCEPT ![o] = At("init_run")]
    /\ UNCHANGED <<codec, host, inputs, results, fs, procs, clock, ids>>

\* run(), lines 55-57: the assertion, then _running and _started
run_enter(o) ==
    /\ pc[o] = Idle
    /\ ops[o].made = "ok"
    /\ Len(results[o]) < MaxCalls
    /\ IF ops[o].running
       THEN /\ results' = [results EXCEPT ![o] =
                               Append(@, Raised("AssertionError", "entry", 0))]
            /\ UNCHANGED <<ops, pc>>
       ELSE /\ ops' = [ops EXCEPT ![o].running = TRUE,
                                  ![o].started = Some(clock)]
            /\ pc' = [pc EXCEPT ![o] = At("init_run")]
            /\ UNCHANGED results
    /\ UNCHANGED <<codec, host, inputs, fs, procs, clock, ids>>

\* _init_run: a fresh id, the Run object, and init_skel, which creates the
\* run directory or raises
init_run(o) ==
    /\ pc[o] = At("init_run")
    /\ LET id == unique_run_id
           path == RunPath(id)
       IN  /\ ids' = Append(ids, o)
           /\ ops' = [ops EXCEPT ![o].run = Some(Run(id, path))]
           /\ \E ok \in BOOLEAN :
                IF ok
                THEN /\ fs' = (path :> NewRunDir) @@ fs
                     /\ pc' = [pc EXCEPT ![o] = AtAttr("init_attrs", 1)]
                     /\ UNCHANGED results
                ELSE /\ Propagate(o, "OSError")
                     /\ UNCHANGED fs
    /\ UNCHANGED <<codec, host, inputs, procs, clock>>

\* a faulty _init_attrs that writes flags before opref
InitAttrNames_swapped == <<"flags", "opref", "cmd", "env", "started">>

\* the attributes _init_attrs writes, in its order, and their values
InitAttrNames == <<"opref", "flags", "cmd", "env", "started">>

\* a faulty _init_attrs that records what the child is spawned with
InitAttrValue_spawned(o, name) ==
    CASE name = "opref" -> opref_attr(inputs[o])
      [] name = "flags" -> inputs[o].opdef.flag_values
      [] name = "cmd" -> proc_args(ops[o])
      [] name = "env" -> proc_env(ops[o])
      [] name = "started" -> ops[o].started[1]

InitAttrValue(o, name) ==
    CASE name = "opref" -> opref_attr(inputs[o])
      [] name = "flags" -> inputs[o].opdef.flag_values
      [] name = "cmd" -> ops[o].cmd_args
      [] name = "env" -> ops[o].cmd_env
      [] name = "started" -> ops[o].started[1]

\* _init_attrs, one write_attr per step; a failed write raises
init_attrs(o) ==
    /\ pc[o].at = "init_attrs"
    /\ LET k == pc[o].k
           name == InitAttrNames[k]
       IN  \E ok \in BOOLEAN :
                IF ok
                THEN /\ fs' = [fs EXCEPT ![RunOf(o).path] =
                                   write_attr(@, name, InitAttrValue(o, name))]
                     /\ pc' = [pc EXCEPT ![o] =
                                   IF k < Len(InitAttrNames)
                                   THEN AtAttr("init_attrs", k + 1)
                                   ELSE At("resolve_deps")]
                     /\ UNCHANGED results
                ELSE /\ Propagate(o, "OSError")
                     /\ UNCHANGED fs
    /\ UNCHANGED <<codec, host, inputs, ops, procs, clock, ids>>

\* a faulty _resolve_deps that logs the failure of guild.deps.resolve and
\* lets run() go on
resolve_deps_continues(o) ==
    /\ pc[o] = At("resolve_deps")
    /\ \E ok \in BOOLEAN :
            IF ok
            THEN /\ fs' = [fs EXCEPT ![RunOf(o).path].resolved = TRUE]
                 /\ UNCHANGED results
            ELSE /\ results' = [results EXCEPT ![o] =
                        Append(@, Raised("DependencyError", "resolve_deps", 0))]
                 /\ UNCHANGED fs
    /\ pc' = [pc EXCEPT ![o] = At("start_proc")]
    /\ UNCHANGED <<codec, host, inputs, ops, procs, clock, ids>>

\* _resolve_deps: guild.deps.resolve populates the run directory or raises
resolve_deps(o) ==
    /\ pc[o] = At("resolve_deps")
    /\ \E ok \in BOOLEAN :
            IF ok
            THEN /\ fs' = [fs EXCEPT ![RunOf(o).path].resolved = TRUE]
                 /\ pc' = [pc EXCEPT ![o] = At("start_proc")]
                 /\ UNCHANGED results
            ELSE /\ Propagate(o, "DependencyError")
                 /\ UNCHANGED fs
    /\ UNCHANGED <<codec, host, inputs, ops, procs, clock, ids>>

\* a faulty _start_proc that opens the LOCK file before Popen, and leaves
\* it behind when Popen raises
start_proc_lock_first(o) ==
    /\ pc[o] = At("start_proc")
    /\ \E ok \in BOOLEAN :
            IF ok
            THEN /\ procs' = Append(procs,
                        [state |-> "Running", code |-> 0,
                         args |-> proc_args(ops[o]), env |-> proc_env(ops[o]),
                         cwd |-> RunOf(o).path])
                 /\ ops' = [ops EXCEPT ![o].proc = Some(Len(procs) + 1)]
                 /\ pc' = [pc EXCEPT ![o] = At("lock_open")]
                 /\ UNCHANGED <<results, fs>>
            ELSE /\ Propagate(o, "OSError")
                 /\ fs' = [fs EXCEPT ![RunOf(o).path].lock = <<>>]
                 /\ UNCHANGED <<procs, ops>>
    /\ UNCHANGED <<codec, host, inputs, clock, ids>>

\* _start_proc, lines 93-102: subprocess.Popen(args, env=env, cwd=cwd)
\* starts the child, whose pid is new, or raises
start_proc(o) ==
    /\ pc[o] = At("start_proc")
    /\ \E ok \in BOOLEAN :
            IF ok /\ ops[o].proc = Nil
            THEN /\ procs' = Append(procs,
                        [state |-> "Running", code |-> 0,
                         args |-> proc_args(ops[o]), env |-> proc_env(ops[o]),
                         cwd |-> RunOf(o).path])
                 /\ ops' = [ops EXCEPT ![o].proc = Some(Len(procs) + 1)]
                 /\ pc' = [pc EXCEPT ![o] = At("lock_open")]
                 /\ UNCHANGED results
            ELSE /\ Propagate(o, IF ops[o].proc = Nil THEN "OSError"
                                 ELSE "AssertionError")
                 /\ UNCHANGED <<procs, ops>>
    /\ UNCHANGED <<codec, host, inputs, fs, clock, ids>>

\* _write_proc_lock, line 229: open(LOCK, "w") creates the file, empty, or
\* raises
lock_open(o) ==
    /\ pc[o] = At("lock_open")
    /\ \E ok \in BOOLEAN :
            IF ok
            THEN /\ fs' = [fs EXCEPT ![RunOf(o).path].lock = <<>>]
                 /\ pc' = [pc EXCEPT ![o] = At("lock_write")]
                 /\ UNCHANGED results
            ELSE /\ Propagate(o, "IOError")
                 /\ UNCHANGED fs
    /\ UNCHANGED <<codec, host, inputs, ops, procs, clock, ids>>

\* a faulty _write_proc_lock that leaves the file empty
lock_write_nothing(o) ==
    /\ pc[o] = At("lock_write")
    /\ pc' = [pc EXCEPT ![o] = At("wait")]
    /\ UNCHANGED <<codec, host, inputs, ops, results, fs, procs, clock, ids>>

\* _write_proc_lock, line 230 and the end of the with block: the pid is in
\* the file, or the write (or the flush at the close) raises with none,
\* some or all of the text in the file
lock_write(o) ==
    /\ pc[o] = At("lock_write")
    /\ \E ok \in BOOLEAN :
            IF ok
            THEN /\ fs' = [fs EXCEPT ![RunOf(o).path].lock =
                                        LockText(ops[o].proc[1])]
                 /\ pc' = [pc EXCEPT ![o] = At("wait")]
                 /\ UNCHANGED results
            ELSE /\ \E n \in 0..Len(LockText(ops[o].proc[1])) :
                        fs' = [fs EXCEPT ![RunOf(o).path].lock =
                                    SubSeq(LockText(ops[o].proc[1]), 1, n)]
                 /\ Propagate(o, "OSError")
    /\ UNCHANGED <<codec, host, inputs, ops, procs, clock, ids>>

\* _wait_for_proc, lines 118-119: proc.wait() returns the exit status once
\* the child has terminated, and _stopped is the time then
wait_for_proc(o) ==
    /\ pc[o] = At("wait")
    /\ ProcOf(o).state = "Terminated"
    /\ ops' = [ops EXCEPT ![o].exit_status = Some(ProcOf(o).code),
                          ![o].stopped = Some(clock)]
    /\ pc' = [pc EXCEPT ![o] = At("delete_lock")]
    /\ UNCHANGED <<codec, host, inputs, results, fs, procs, clock, ids>>

\* proc.wait() raises instead (KeyboardInterrupt while the caller is
\* blocked, an OSError of waitpid): nothing in run() catches it
wait_raises(o) ==
    /\ pc[o] = At("wait")
    /\ Propagate(o, "KeyboardInterrupt")
    /\ UNCHANGED <<codec, host, inputs, ops, fs, procs, clock, ids>>

\* _wait_for_proc, line 120: _delete_proc_lock(self._run)
wait_delete_lock(o) ==
    /\ pc[o] = At("delete_lock")
    /\ \E removes \in BOOLEAN :
            fs' = [fs EXCEPT ![RunOf(o).path].lock =
                                    delete_proc_lock(@, removes)]
    /\ pc' = [pc EXCEPT ![o] = AtAttr("finalize_attrs", 1)]
    /\ UNCHANGED <<codec, host, inputs, ops, results, procs, clock, ids>>

\* a faulty _finalize_attrs that writes stopped first
FinalAttrNames_reversed == <<"stopped", "exit_status">>

\* the attributes _finalize_attrs writes, in its order, and their values
FinalAttrNames == <<"exit_status", "stopped">>

FinalAttrValue(op, name) ==
    CASE name = "exit_status" -> op.exit_status[1]
      [] name = "stopped" -> op.stopped[1]

\* _finalize_attrs, one write_attr per step, and after the last one run()
\* returns self._exit_status
finalize_attrs(o) ==
    /\ pc[o].at = "finalize_attrs"
    /\ LET k == pc[o].k
           name == FinalAttrNames[k]
       IN  \E ok \in BOOLEAN :
                IF ok
                THEN /\ fs' = [fs EXCEPT ![RunOf(o).path] =
                                   write_attr(@, name, FinalAttrValue(ops[o], name))]
                     /\ IF k < Len(FinalAttrNames)
                        THEN /\ pc' = [pc EXCEPT ![o] = AtAttr("finalize_attrs", k + 1)]
                             /\ UNCHANGED results
                        ELSE /\ pc' = [pc EXCEPT ![o] = Idle]
                             /\ results' = [results EXCEPT ![o] =
                                    Append(@, Returned(ops[o].exit_status[1]))]
                ELSE /\ Propagate(o, "OSError")
                     /\ UNCHANGED fs
    /\ UNCHANGED <<codec, host, inputs, ops, procs, clock, ids>>

\* the child process exits with some code
ChildExit(pid) ==
    /\ procs[pid].state = "Running"
    /\ \E code \in ExitCodes :
            procs' = [procs EXCEPT ![pid].state = "Terminated", ![pid].code = code]
    /\ UNCHANGED <<codec, host, inputs, ops, pc, results, fs, clock, ids>>

\* int(time.time()) changes: the wall clock advances by a second, or is set
\* back by one
Tick ==
    /\ clock' \in {clock - 1, clock + 1} \cap (0..MaxClock)
    /\ UNCHANGED <<codec, host, inputs, ops, pc, results, fs, procs, ids>>

\* the codec specification's variable while the lifecycle runs
CodecIdle ==
    [pc |-> "idle", op_name |-> None, model_ref |-> <<None, None, None, None>>,
     opref |-> OpRef(None, None, None, None, None),
     attr |-> None, parsed |-> OpRefError]

\* one Operation, not constructed yet, on some host
Init ==
    /\ codec = CodecIdle
    /\ host \in Hosts
    /\ inputs \in [{"op1"} -> LifeInputs]
    /\ ops = [o \in {"op1"} |-> NoOperation("no", "")]
    /\ pc = [o \in {"op1"} |-> Idle]
    /\ results = [o \in {"op1"} |-> <<>>]
    /\ fs = <<>>
    /\ procs = <<>>
    /\ clock = 0
    /\ ids = <<>>

Next ==
    \/ \E o \in DOMAIN ops : Construct(o)
    \/ \E o \in DOMAIN ops : run_enter(o)
    \/ \E o \in DOMAIN ops : init_run(o)
    \/ \E o \in DOMAIN ops : init_attrs(o)
    \/ \E o \in DOMAIN ops : resolve_deps(o)
    \/ \E o \in DOMAIN ops : start_proc(o)
    \/ \E o \in DOMAIN ops : lock_open(o)
    \/ \E o \in DOMAIN ops : lock_write(o)
    \/ \E o \in DOMAIN ops : wait_for_proc(o)
    \/ \E o \in DOMAIN ops : wait_raises(o)
    \/ \E o \in DOMAIN ops : wait_delete_lock(o)
    \/ \E o \in DOMAIN ops : finalize_attrs(o)
    \/ \E pid \in DOMAIN procs : ChildExit(pid)
    \/ Tick

Spec == Init /\ [][Next]_vars

-----------------------------------------------------------------------------
(* The two-run specification: two Operations of different definitions, on *)
(* one host, constructed and run in any interleaving of their steps.       *)

MultiInputs ==
    ("op1" :> [model_reference |-> << <<"t">>, <<"p">>, <<"1">>, <<"m">> >>,
               opdef |-> [name |-> T_op, modelfile_src |-> ModelFileSrc, cmd |-> CmdList(<<T_op>>),
                          flag_values |-> (T_lr :> IntVal(2)),
                          disabled_plugins |-> <<>>,
                          modeldef_disabled_plugins |-> <<>>]])
    @@ ("op2" :> [model_reference |-> << None, None, None, <<"m">> >>,
                  opdef |-> [name |-> T_lr, modelfile_src |-> ModelFileSrc, cmd |-> CmdList(<<T_lr>>),
                             flag_values |-> <<>>,
                             disabled_plugins |-> <<>>,
                             modeldef_disabled_plugins |-> <<>>]])

MultiInit ==
    /\ codec = CodecIdle
    /\ host \in {h \in Hosts : "RUNDIR" \notin DOMAIN h.environ}
    /\ inputs = MultiInputs
    /\ ops = [o \in DOMAIN MultiInputs |-> NoOperation("no", "")]
    /\ pc = [o \in DOMAIN MultiInputs |-> Idle]
    /\ results = [o \in DOMAIN MultiInputs |-> <<>>]
    /\ fs = <<>>
    /\ procs = <<>>
    /\ clock = 0
    /\ ids = <<>>

\* the steps of both Operations and of their children, and of the clock
MultiNext ==
    \/ \E o \in DOMAIN ops : Construct(o)
    \/ \E o \in DOMAIN ops : run_enter(o)
    \/ \E o \in DOMAIN ops : init_run(o)
    \/ \E o \in DOMAIN ops : init_attrs(o)
    \/ \E o \in DOMAIN ops : resolve_deps(o)
    \/ \E o \in DOMAIN ops : start_proc(o)
    \/ \E o \in DOMAIN ops : lock_open(o)
    \/ \E o \in DOMAIN ops : lock_write(o)
    \/ \E o \in DOMAIN ops : wait_for_proc(o)
    \/ \E o \in DOMAIN ops : wait_raises(o)
    \/ \E o \in DOMAIN ops : wait_delete_lock(o)
    \/ \E o \in DOMAIN ops : finalize_attrs(o)
    \/ \E pid \in DOMAIN procs : ChildExit(pid)
    \/ Tick

SpecMulti == MultiInit /\ [][MultiNext]_vars

-----------------------------------------------------------------------------
(* The codec specification: an operation name and a model reference are    *)
(* drawn, OpRef.from_op builds the reference, str() renders it as the      *)
(* run's opref attribute, and OpRef.from_run parses the attribute.         *)

FieldChars == {"a", " ", ":"}

FieldValues == TextsUpTo(FieldChars, MaxFieldLen) \cup {None}

\* no Operation exists in the codec specification
NoLifecycle ==
    /\ host \in {h \in Hosts : "RUNDIR" \notin DOMAIN h.environ}
    /\ inputs = <<>> /\ ops = <<>> /\ pc = <<>> /\ results = <<>>
    /\ fs = <<>> /\ procs = <<>> /\ clock = 0 /\ ids = <<>>

CodecInit ==
    /\ \E op_name \in FieldValues, model_ref \in [1..4 -> FieldValues] :
        codec = [pc |-> "input", op_name |-> op_name, model_ref |-> model_ref,
                 opref |-> OpRef(None, None, None, None, None),
                 attr |-> None, parsed |-> OpRefError]
    /\ NoLifecycle

CodecFromOp ==
    /\ codec.pc = "input"
    /\ codec' = [codec EXCEPT !.pc = "built",
                    !.opref = opref_from_op(codec.op_name, codec.model_ref)]
    /\ UNCHANGED life_vars

CodecToString ==
    /\ codec.pc = "built"
    /\ codec' = [codec EXCEPT !.pc = "written",
                    !.attr = opref_to_string(codec.opref)]
    /\ UNCHANGED life_vars

CodecFromRun ==
    /\ codec.pc = "written"
    /\ codec' = [codec EXCEPT !.pc = "parsed",
                    !.parsed = opref_from_run(codec.attr)]
    /\ UNCHANGED life_vars

CodecNext == CodecFromOp \/ CodecToString \/ CodecFromRun

SpecRef == CodecInit /\ [][CodecNext]_vars

-----------------------------------------------------------------------------
(* The free-reference specification: a text is drawn and OpRef.from_string *)
(* parses it.                                                              *)

RefChars == {"a", ".", "/", ":", " ", "\n"}

RefInit ==
    /\ \E s \in TextsUpTo(RefChars, MaxRefLen) :
        codec = [pc |-> "string", string |-> s, result |-> OpRefStringError]
    /\ NoLifecycle

RefFromString ==
    /\ codec.pc = "string"
    /\ codec' = [codec EXCEPT !.pc = "from_string",
                    !.result = opref_from_string(codec.string)]
    /\ UNCHANGED life_vars

SpecStr == RefInit /\ [][RefFromString]_vars

-----------------------------------------------------------------------------
(* The command-builder specification: an operation definition is drawn and *)
(* Operation(model, opdef) is constructed from it, which computes cmd_args *)
(* and cmd_env or raises.                                                  *)

\* the tokens of the drawn command templates: op, --a, --a=1, --b, --ab,
\* --, --=a
CmdTokens ==
    { T_op,
      <<"-", "-", "a">>,
      <<"-", "-", "a", "=", "1">>,
      <<"-", "-", "b">>,
      <<"-", "-", "a", "b">>,
      <<"-", "-">>,
      <<"-", "-", "=", "a">> }

CmdTokenLists == UNION {[1..k -> CmdTokens] : k \in 0..MaxCmdLen}

\* each list as a list, and as the str of its tokens separated by spaces;
\* and a template that is neither
CmdTemplates ==
    {CmdList(l) : l \in CmdTokenLists}
        \cup {CmdStr(Join(<<" ">>, l)) : l \in CmdTokenLists}
        \cup {CmdOther}

\* the flag names and values of the drawn definitions: a, b, ab, a=1 and
\* the empty name (flags is a dict, any str is a key)
CmdFlagNames == {<<"a">>, <<"b">>, <<"a", "b">>, <<"a", "=", "1">>, <<>>}
CmdFlagValues == {NoneVal, IntVal(1), StrVal(<<"-", "-", "a">>)}
CmdFlagMaps == UNION {[S -> CmdFlagValues] : S \in SUBSET CmdFlagNames}

CmdInputs ==
    { [model_reference |-> << <<"t">>, <<"p">>, <<"1">>, <<"m">> >>,
       opdef |-> [name |-> T_op, modelfile_src |-> ModelFileSrc, cmd |-> c, flag_values |-> f,
                  disabled_plugins |-> <<>>,
                  modeldef_disabled_plugins |-> <<>>]] :
        c \in CmdTemplates, f \in CmdFlagMaps }

\* one Operation to construct, and nothing else yet
OneOperation(inputSet, hostSet) ==
    /\ codec = CodecIdle
    /\ host \in hostSet
    /\ inputs \in [{"op1"} -> inputSet]
    /\ ops = [o \in {"op1"} |-> NoOperation("no", "")]
    /\ pc = [o \in {"op1"} |-> Idle]
    /\ results = [o \in {"op1"} |-> <<>>]
    /\ fs = <<>>
    /\ procs = <<>>
    /\ clock = 0
    /\ ids = <<>>

CmdInit ==
    OneOperation(CmdInputs, {h \in Hosts : "RUNDIR" \notin DOMAIN h.environ})

CmdNext == \E o \in DOMAIN ops : Construct(o)

SpecCmd == CmdInit /\ [][CmdNext]_vars

-----------------------------------------------------------------------------
(* The plugin specification: the installed plugins, their answers to       *)
(* enabled_for_op and the two disabled-plugin lists are drawn, and          *)
(* Operation(model, opdef) is constructed, which computes GUILD_PLUGINS.    *)

\* the plugins that may be installed: a, cpu, gpu
PluginNames == {<<"a">>, T_cpu, T_gpu}

\* what enabled_for_op answers, per installed plugin
PluginAnswers == UNION {[S -> BOOLEAN] : S \in SUBSET PluginNames}

\* a disabled-plugin list: plugin names and the wildcard
DisabledLists ==
    UNION {[1..k -> PluginNames \cup {<<"a", "l", "l">>}] : k \in 0..MaxDisabled}

PluginInputs ==
    { [model_reference |-> << <<"t">>, <<"p">>, <<"1">>, <<"m">> >>,
       opdef |-> [name |-> T_op, modelfile_src |-> ModelFileSrc, cmd |-> CmdList(<<T_op>>),
                  flag_values |-> <<>>,
                  disabled_plugins |-> d1,
                  modeldef_disabled_plugins |-> d2]] :
        d1 \in DisabledLists, d2 \in DisabledLists }

PluginHosts ==
    { [h EXCEPT !.plugins = answers] :
        h \in {g \in Hosts : "RUNDIR" \notin DOMAIN g.environ},
        answers \in PluginAnswers }

PluginInit == OneOperation(PluginInputs, PluginHosts)

PluginNext == \E o \in DOMAIN ops : Construct(o)

SpecPlugins == PluginInit /\ [][PluginNext]_vars

-----------------------------------------------------------------------------
(* What the claims speak of *)

Operations == DOMAIN ops

\* Popen has returned a child for Operation o
Spawned(o) == ops[o].proc # Nil

\* the LOCK file of o's run directory: None when there is no file
LockOf(o) == IF HasDir(o) THEN DirOf(o).lock ELSE None

HasAttr(o, name) == HasDir(o) /\ name \in DOMAIN DirOf(o).attrs

\* some run() call of o raised at the given step
RaisedAt(o, step) ==
    \E k \in 1..Len(results[o]) :
        results[o][k].exc # "" /\ results[o][k].at = step

\* some run() call of o returned a value
HasReturned(o) == \E k \in 1..Len(results[o]) : results[o][k].exc = ""

\* the child processes started in o's run directory
ChildrenOf(o) ==
    {pid \in DOMAIN procs : ops[o].run # Nil /\ procs[pid].cwd = RunOf(o).path}

\* _start_proc has returned: the child runs under supervision and the lock
\* removal of _wait_for_proc has not happened
Supervising(o) ==
    pc[o].at \in {"wait", "delete_lock"} \/ RaisedAt(o, "wait")

\* the lock removal of _wait_for_proc has happened
LockRemovalDone(o) ==
    pc[o].at = "finalize_attrs" \/ RaisedAt(o, "finalize_attrs") \/ HasReturned(o)

IsPrefix(s, t) == Len(s) <= Len(t) /\ s = SubSeq(t, 1, Len(s))

\* C1 as stated: LOCK is present exactly while the child runs: absent
\* before the spawn, present with the child's pid in every state in which
\* the child has been spawned and has not terminated, and gone once the
\* child has terminated and run() is over.
C1_LockExactlyWhileRunning ==
    \A o \in Operations :
        /\ ~Spawned(o) => LockOf(o) = None
        /\ (Spawned(o) /\ ProcOf(o).state = "Running")
                => LockOf(o) = LockText(ops[o].proc[1])
        /\ (Spawned(o) /\ ProcOf(o).state = "Terminated" /\ pc[o] = Idle)
                => LockOf(o) = None

\* C1 as amended: LOCK is absent before the spawn; from the return of
\* _start_proc until the removal step of _wait_for_proc, LOCK holds the
\* child's pid; the removal is attempted only after the child has
\* terminated, and once it has run LOCK is absent, or still holds the pid
\* when os.remove failed.  Whenever a LOCK file exists, a child has been
\* spawned and the file holds that child's pid, or less of it: empty when
\* just opened, the beginning of the pid after a failed write.
C1_LockWhileSupervised ==
    \A o \in Operations :
        /\ ~Spawned(o) => LockOf(o) = None
        /\ Supervising(o) => LockOf(o) = LockText(ops[o].proc[1])
        /\ LockRemovalDone(o)
                => /\ LockOf(o) \in {None, LockText(ops[o].proc[1])}
                   /\ ProcOf(o).state = "Terminated"
        /\ LockOf(o) # None
                => /\ Spawned(o)
                   /\ IsPrefix(LockOf(o), LockText(ops[o].proc[1]))
                   /\ LockOf(o) # LockText(ops[o].proc[1]) =>
                        pc[o].at = "lock_write" \/ RaisedAt(o, "lock_write")

\* C1's case: the child ran and terminated under supervision, and the lock
\* has been removed
C1_Witness ==
    \E o \in Operations :
        /\ LockRemovalDone(o)
        /\ LockOf(o) = None
        /\ ProcOf(o).state = "Terminated"

\* C2: when a step of run() before the spawn fails (init_skel, a write of
\* _init_attrs, dependency resolution), no child is ever started for the
\* run, no LOCK is created, exit_status and stopped are never written, and
\* the attributes written before the failure remain, with their values.
C2_PreSpawnFailureAborts ==
    \A o \in Operations : \A k \in 1..Len(results[o]) :
        LET r == results[o][k] IN
        (r.exc # "" /\ r.at \in {"init_run", "init_attrs", "resolve_deps"}) =>
            /\ ~Spawned(o)
            /\ ChildrenOf(o) = {}
            /\ LockOf(o) = None
            /\ ~HasAttr(o, "exit_status") /\ ~HasAttr(o, "stopped")
            /\ r.at = "init_run" => ~HasDir(o)
            /\ r.at = "init_attrs" =>
                    /\ HasDir(o)
                    /\ DirOf(o).order =
                         SubSeq(<<"opref", "flags", "cmd", "env", "started">>, 1, r.k - 1)
            /\ r.at = "resolve_deps" =>
                    /\ HasDir(o)
                    /\ DirOf(o).order = <<"opref", "flags", "cmd", "env", "started">>
            /\ HasAttr(o, "opref") => DirOf(o).attrs["opref"] = opref_attr(inputs[o])
            /\ HasAttr(o, "cmd") => DirOf(o).attrs["cmd"] = ops[o].cmd_args
            /\ HasAttr(o, "started") => DirOf(o).attrs["started"] = ops[o].started[1]

\* C2's case: dependency resolution failed, and run() has been called again
C2_Witness ==
    \E o \in Operations :
        /\ RaisedAt(o, "resolve_deps")
        /\ Len(results[o]) = 2
        /\ DirOf(o).order = <<"opref", "flags", "cmd", "env", "started">>

\* C3 as stated: when the wait on the child raises, run() still writes the
\* post-execution attributes exit_status and stopped.
C3_WaitFailureFinalizes ==
    \A o \in Operations :
        RaisedAt(o, "wait") => HasAttr(o, "exit_status") /\ HasAttr(o, "stopped")

\* C4: when Popen fails, run() raises the error to its caller, exit_status
\* and stopped are not written, and no LOCK file is in the run directory.
C4_SpawnFailureSurfaces ==
    \A o \in Operations : \A k \in 1..Len(results[o]) :
        LET r == results[o][k] IN
        r.at = "start_proc" =>
            /\ r.exc = "OSError"
            /\ pc[o] = Idle
            /\ ~Spawned(o) /\ ChildrenOf(o) = {}
            /\ ~HasAttr(o, "exit_status") /\ ~HasAttr(o, "stopped")
            /\ LockOf(o) = None

\* C4's case: Popen failed in a run directory whose dependencies resolved
C4_Witness ==
    \E o \in Operations :
        /\ RaisedAt(o, "start_proc")
        /\ DirOf(o).resolved

\* C5: an Operation is one-shot: over all its run() calls at most one run
\* id is generated, at most one run directory is initialized, at most one
\* child is spawned, and every call after the first raises at entry.
C5_OneShot ==
    \A o \in Operations :
        /\ Cardinality({k \in 1..Len(ids) : ids[k] = o}) <= 1
        /\ Cardinality({k \in 1..Len(ids) :
                ids[k] = o /\ RunPath(NatToText(k)) \in DOMAIN fs}) <= 1
        /\ Cardinality({pid \in DOMAIN procs :
                \E k \in 1..Len(ids) :
                    ids[k] = o /\ procs[pid].cwd = RunPath(NatToText(k))}) <= 1
        /\ \A k \in 2..Len(results[o]) :
                results[o][k].exc = "AssertionError" /\ results[o][k].at = "entry"
        /\ (Len(results[o]) >= 1 /\ pc[o] = Idle) => results[o][1].at # "entry"

\* C5's case: run() was called again after a call that raised part-way
C5_Witness ==
    \E o \in Operations :
        /\ Len(results[o]) = 2
        /\ results[o][1].exc # ""
        /\ results[o][2].exc = "AssertionError"
        /\ Spawned(o)

\* C6: the attribute keys are written in the order opref, flags, cmd, env,
\* started, exit_status, stopped; the first five before dependency
\* resolution starts; resolution completes before the spawn; exit_status
\* and stopped only after the child has terminated.
C6_WriteOrder ==
    \A o \in Operations :
        HasDir(o) =>
            /\ IsPrefix(DirOf(o).order,
                    <<"opref", "flags", "cmd", "env", "started", "exit_status", "stopped">>)
            /\ (pc[o].at = "resolve_deps" \/ DirOf(o).resolved)
                    => Len(DirOf(o).order) >= 5
            /\ Len(DirOf(o).order) < 5 => pc[o].at \in {"init_attrs", "idle"}
            /\ Spawned(o) => DirOf(o).resolved
            /\ Len(DirOf(o).order) > 5
                    => Spawned(o) /\ ProcOf(o).state = "Terminated"

\* C6's case: all seven attributes have been written
C6_Witness ==
    \E o \in Operations :
        /\ HasDir(o)
        /\ DirOf(o).order =
                <<"opref", "flags", "cmd", "env", "started", "exit_status", "stopped">>

\* C7 as stated: whenever run() returns v, the child was spawned exactly
\* once and terminated with exit code v, the exit_status attribute is v,
\* stopped is present and started <= stopped.
C7_ReturnValue ==
    \A o \in Operations : \A k \in 1..Len(results[o]) :
        results[o][k].exc = "" =>
            LET v == results[o][k].value IN
            /\ Cardinality(ChildrenOf(o)) = 1
            /\ Spawned(o)
            /\ ProcOf(o).state = "Terminated" /\ ProcOf(o).code = v
            /\ HasAttr(o, "exit_status") /\ DirOf(o).attrs["exit_status"] = v
            /\ HasAttr(o, "started") /\ HasAttr(o, "stopped")
            /\ DirOf(o).attrs["started"] <= DirOf(o).attrs["stopped"]

\* C8: the child is spawned with the arguments [python, -um, guild.op_main]
\* + operation tokens + flag tokens + ["--rundir", run.path], in the working
\* directory run.path and with RUNDIR = run.path in its environment, also
\* when the command builder's environment carries another RUNDIR.
C8_ProcessContract ==
    \A o \in Operations :
        Spawned(o) =>
            LET p == ProcOf(o)
                path == RunOf(o).path
                tokens == split_cmd(inputs[o].opdef.cmd).value
                n == Len(p.args)
            IN  /\ n >= 6
                /\ SubSeq(p.args, 1, 3) =
                      << <<"p", "y", "t", "h", "o", "n">>, <<"-", "u", "m">>,
                         <<"g", "u", "i", "l", "d", ".", "o", "p", "_", "m", "a", "i", "n">> >>
                /\ SubSeq(p.args, 4, n - 2) =
                      tokens \o flag_args(inputs[o].opdef.flag_values, tokens)
                /\ p.args[n - 1] = <<"-", "-", "r", "u", "n", "d", "i", "r">>
                /\ p.args[n] = path
                /\ p.cwd = path
                /\ "RUNDIR" \in DOMAIN p.env /\ p.env["RUNDIR"] = path
                /\ \A key \in DOMAIN ops[o].cmd_env \ {"RUNDIR"} :
                        key \in DOMAIN p.env /\ p.env[key] = ops[o].cmd_env[key]

\* C8's case: a child was spawned by an Operation whose command environment
\* carries a RUNDIR that is not the run path
C8_Witness ==
    \E o \in Operations :
        /\ Spawned(o)
        /\ "RUNDIR" \in DOMAIN ops[o].cmd_env
        /\ ops[o].cmd_env["RUNDIR"] # RunOf(o).path

\* an OpRef whose five fields are all known
FullySpecified(opref) == \A i \in 1..5 : Truthy(opref[i])

\* C9 as stated: for every fully specified OpRef r, OpRef.from_run of a run
\* whose opref attribute is str(r) returns r.
C9_FromRunInvertsToString ==
    (codec.pc = "parsed" /\ FullySpecified(codec.opref)) =>
        codec.parsed.ok /\ codec.parsed.opref = codec.opref

\* C10 as stated: for every operation name and model reference,
\* str(OpRef.from_op(name, ref)) matches the pattern OpRef.from_run accepts,
\* with "?" in the place of every unknown field.
C10_ToStringIsCanonical ==
    codec.pc = "parsed" =>
        /\ codec.parsed.ok
        /\ \A i \in 1..5 :
                ~Truthy(codec.opref[i]) => codec.parsed.opref[i] = <<"?">>

\* the Operations whose constructor returned, the tokens of their command
\* and the flags of their definition
Built(o) == ops[o].made = "ok"
TokensOf(o) == split_cmd(inputs[o].opdef.cmd).value
FlagsOf(o) == inputs[o].opdef.flag_values

\* the flags _flag_args skips: name in cmd_options
ShadowedFlags(o) == DOMAIN FlagsOf(o) \cap cmd_options(TokensOf(o))

\* the flags _flag_args does not skip
KeptFlags(o) == DOMAIN FlagsOf(o) \ ShadowedFlags(o)

\* the orders in which the names of a set can be listed, each once
Listings(S) ==
    {l \in [1..Cardinality(S) -> S] : \A name \in S : \E k \in DOMAIN l : l[k] = name}

\* what the listed flags read when each is written as --name followed by its
\* value as text, or as --name alone when the value is None
RECURSIVE FlagTokens(_, _)
FlagTokens(names, flags) ==
    IF names = <<>> THEN <<>>
    ELSE LET opt == <<"-", "-">> \o Head(names)
             val == flags[Head(names)]
         IN  (IF val = NoneVal THEN <<opt>> ELSE <<opt, ValToText(val)>>)
                \o FlagTokens(Tail(names), flags)

\* C11 as stated: for every flag name that also appears as a --name option
\* among the command tokens (a token that reads "--name", or "--name=" and a
\* value), the built argument vector holds exactly one occurrence of --name,
\* coming from the command tokens, and the flag pass adds neither a second
\* --name nor its value: what follows the command tokens is written for
\* other flags only.
C11_ExactlyOneOption ==
    \A o \in Operations :
        Built(o) =>
            LET opt(name) == <<"-", "-">> \o name
                IsOption(token, name) ==
                    \/ token = opt(name)
                    \/ IsPrefix(opt(name) \o <<"=">>, token)
                Named == {name \in DOMAIN FlagsOf(o) :
                            \E k \in 1..Len(TokensOf(o)) :
                                IsOption(TokensOf(o)[k], name)}
                Count(name) ==
                    Cardinality({k \in 1..Len(ops[o].cmd_args) :
                                    IsOption(ops[o].cmd_args[k], name)})
            IN  \A name \in Named :
                    /\ Count(name) = 1
                    /\ \E S \in SUBSET (DOMAIN FlagsOf(o) \ {name}) :
                            \E names \in Listings(S) :
                                ops[o].cmd_args =
                                    python_args \o TokensOf(o)
                                        \o FlagTokens(names, FlagsOf(o))

\* C12: for every definition a vector was built from, the vector is the
\* interpreter prefix, then all command tokens, then the flag tokens: the
\* non-shadowed flags (those _flag_args does not skip) in lexicographic order
\* of name, each as --name followed by its value as text, or as the bare
\* --name when its value is None.
C12_FlagTokensSortedLast ==
    \A o \in Operations :
        Built(o) =>
            \E names \in Listings(KeptFlags(o)) :
                /\ \A i, j \in DOMAIN names :
                        i < j => TextLess(names[i], names[j])
                /\ ops[o].cmd_args =
                        python_args \o TokensOf(o)
                            \o FlagTokens(names, FlagsOf(o))

\* C12's case: a vector was built for a command with an option and three
\* flags, one shadowed, one kept with the value None, one kept with a value
C12_Witness ==
    \E o \in Operations :
        /\ Built(o)
        /\ ShadowedFlags(o) # {}
        /\ \E n1, n2 \in KeptFlags(o) :
                /\ FlagsOf(o)[n1] = NoneVal
                /\ FlagsOf(o)[n2] # NoneVal
                /\ TextLess(n2, n1)
                /\ Len(n2) < Len(n1)

\* the command template is "", [] or neither a str nor a list
BadTemplate(cmd) ==
    \/ cmd.kind = "str" /\ cmd.text = <<>>
    \/ cmd.kind = "list" /\ cmd.list = <<>>
    \/ cmd.kind \notin {"str", "list"}

\* C13 as stated: constructing an Operation whose command template is the
\* empty string, the empty list or neither a string nor a list raises
\* InvalidCmd, and no run id, run directory or process exists for it.
C13_BadTemplateRaisesInvalidCmd ==
    \A o \in Operations :
        (BadTemplate(inputs[o].opdef.cmd) /\ ops[o].made # "no") =>
            /\ ops[o].made = "raised"
            /\ ops[o].exc = "InvalidCmd"
            /\ ops[o].run = Nil
            /\ ops[o].proc = Nil
            /\ \A k \in DOMAIN ids : ids[k] # o

\* C14 as stated: for every input, OpRef.from_string returns
\* (OpRef(None, pkgName, None, modelName, opName), extra), the input being
\* [[pkgName/]modelName:]opName[extra] with an omitted qualifier None,
\* opName the maximal run of [A-Za-z0-9_.-] at its position and extra every
\* character after it; it raises OpRefError only when no opName can be
\* matched.
C14_FromStringParses ==
    codec.pc = "from_string" =>
        LET s == codec.string
            r == codec.result
            pkg == r.opref[2]
            model == r.opref[4]
            op == r.opref[5]
            qualifier ==
                IF pkg # None THEN pkg \o <<"/">> \o model \o <<":">>
                ELSE IF model # None THEN model \o <<":">>
                ELSE <<>>
        IN  /\ r.ok =>
                /\ r.opref[1] = None /\ r.opref[3] = None
                /\ pkg # None => model # None
                /\ s = qualifier \o op \o r.extra
                /\ op # <<>>
                /\ \A k \in 1..Len(op) : op[k] \in OpNameChars
                /\ r.extra # <<>> => r.extra[1] \notin OpNameChars
            /\ ~r.ok => (s = <<>> \/ s[1] \notin OpNameChars)

\* the value o itself writes under the name of an attribute
OwnAttrValue(o, name) ==
    IF name \in {"exit_status", "stopped"} THEN FinalAttrValue(ops[o], name)
    ELSE InitAttrValue(o, name)

\* C15: any two Operations that have a run have different run ids and run
\* paths; every run directory is the directory of one Operation's run and
\* holds only what that Operation wrote, in that Operation's order; every
\* child runs in the directory of the Operation that spawned it; and a LOCK
\* holds the pid of the run's own child, and less than the whole of it only
\* while that Operation's write of it is pending or has failed.
C15_RunsAreIndependent ==
    /\ \A o1, o2 \in Operations :
            (o1 # o2 /\ ops[o1].run # Nil /\ ops[o2].run # Nil) =>
                /\ RunOf(o1).id # RunOf(o2).id
                /\ RunOf(o1).path # RunOf(o2).path
    /\ \A path \in DOMAIN fs :
            \E o \in Operations : ops[o].run # Nil /\ RunOf(o).path = path
    /\ \A o \in Operations :
            HasDir(o) =>
                /\ IsPrefix(DirOf(o).order, InitAttrNames \o FinalAttrNames)
                /\ \A name \in DOMAIN DirOf(o).attrs :
                        DirOf(o).attrs[name] = OwnAttrValue(o, name)
                /\ LockOf(o) # None =>
                        /\ Spawned(o)
                        /\ IsPrefix(LockOf(o), LockText(ops[o].proc[1]))
                        /\ \/ LockOf(o) = LockText(ops[o].proc[1])
                           \/ pc[o].at = "lock_write"
                           \/ RaisedAt(o, "lock_write")
    /\ \A o \in Operations :
            /\ Spawned(o) => ProcOf(o).cwd = RunOf(o).path
            /\ ChildrenOf(o) \subseteq {ops[o].proc[k] : k \in DOMAIN ops[o].proc}

\* C15's case: two Operations ran interleaved, the one with the later run id
\* spawned first, and both wait for their children with their LOCKs written
C15_Witness ==
    \E o1, o2 \in Operations :
        /\ pc[o1].at = "wait" /\ pc[o2].at = "wait"
        /\ LockOf(o1) = LockText(ops[o1].proc[1])
        /\ LockOf(o2) = LockText(ops[o2].proc[1])
        /\ ops[o1].proc[1] < ops[o2].proc[1]
        /\ \E k1, k2 \in DOMAIN ids : ids[k1] = o1 /\ ids[k2] = o2 /\ k2 < k1

\* the plugin is named, or the wildcard is, in the operation's or in its
\* model's disabled-plugin list
NamedDisabled(name, opdef) ==
    \E list \in {opdef.disabled_plugins, opdef.modeldef_disabled_plugins} :
        \E k \in DOMAIN list : list[k] \in {name, <<"a", "l", "l">>}

\* C16: GUILD_PLUGINS of a constructed Operation is the comma-joined list,
\* in lexicographic order, of exactly the installed plugins that are not
\* named (themselves or by the wildcard all) in the operation's or its
\* model's disabled-plugin list and for which enabled_for_op answers true.
C16_GuildPlugins ==
    \A o \in Operations :
        Built(o) =>
            LET enabled == {name \in DOMAIN host.plugins :
                                /\ ~NamedDisabled(name, inputs[o].opdef)
                                /\ host.plugins[name]}
            IN  \E names \in Listings(enabled) :
                    /\ \A i, j \in DOMAIN names :
                            i < j => TextLess(names[i], names[j])
                    /\ ops[o].cmd_env["GUILD_PLUGINS"] = Join(<<",">>, names)

\* C16's case: an Operation was constructed where enabled_for_op answers
\* true for a, cpu and gpu, the model's list disables gpu and the
\* operation's list is empty: GUILD_PLUGINS lists the other two
C16_Witness ==
    \E o \in Operations :
        /\ Built(o)
        /\ DOMAIN host.plugins = PluginNames
        /\ \A name \in PluginNames : host.plugins[name]
        /\ inputs[o].opdef.disabled_plugins = <<>>
        /\ inputs[o].opdef.modeldef_disabled_plugins = <<T_gpu>>
        /\ ops[o].cmd_env["GUILD_PLUGINS"] = <<"a", ",", "c", "p", "u">>

\* the token --rundir
RundirOption == <<"-", "-", "r", "u", "n", "d", "i", "r">>

\* C17: cmd_args and cmd_env of a constructed Operation stay what the
\* command builder computed at construction, through every step of run();
\* the recorded cmd and env attributes are these values: cmd does not end
\* with the pair --rundir, run path, and env has no RUNDIR entry but the
\* one the constructing environment already had, which is not the run path;
\* the child's arguments and environment are these values with the pair
\* and the entry added.
C17_RecordedCommandIsBuilt ==
    \A o \in Operations :
        Built(o) =>
            LET args == init_cmd_args(inputs[o].opdef).value
                env == init_cmd_env(inputs[o].opdef, host)
            IN  /\ ops[o].cmd_args = args
                /\ ops[o].cmd_env = env
                /\ HasAttr(o, "cmd") =>
                    /\ DirOf(o).attrs["cmd"] = args
                    /\ \A k \in 1..Len(DirOf(o).attrs["cmd"]) - 1 :
                            ~ /\ DirOf(o).attrs["cmd"][k] = RundirOption
                              /\ DirOf(o).attrs["cmd"][k + 1] = RunOf(o).path
                /\ HasAttr(o, "env") =>
                    /\ DirOf(o).attrs["env"] = env
                    /\ "RUNDIR" \in DOMAIN DirOf(o).attrs["env"] =>
                        /\ "RUNDIR" \in DOMAIN host.environ
                        /\ DirOf(o).attrs["env"]["RUNDIR"]
                                = host.environ["RUNDIR"]
                        /\ DirOf(o).attrs["env"]["RUNDIR"] # RunOf(o).path
                /\ Spawned(o) =>
                    /\ ProcOf(o).args = args \o <<RundirOption, RunOf(o).path>>
                    /\ ProcOf(o).env["RUNDIR"] = RunOf(o).path

\* C17's case: run() has returned for an Operation constructed in an
\* environment with a RUNDIR of its own; its child was spawned with the
\* run path as RUNDIR, and cmd and env are recorded
C17_Witness ==
    \E o \in Operations :
        /\ HasReturned(o)
        /\ Spawned(o)
        /\ HasAttr(o, "cmd") /\ HasAttr(o, "env")
        /\ "RUNDIR" \in DOMAIN ops[o].cmd_env
        /\ ProcOf(o).env["RUNDIR"] # ops[o].cmd_env["RUNDIR"]
        /\ Len(ProcOf(o).args) = Len(ops[o].cmd_args) + 2

\* C18 as stated: in every reachable state of a run, if the exit_status
\* attribute is present then LOCK is absent, and if the stopped attribute
\* is present then exit_status is present.
C18_FinalAttrsAfterLockGone ==
    \A o \in Operations :
        /\ HasAttr(o, "exit_status") => LockOf(o) = None
        /\ HasAttr(o, "stopped") => HasAttr(o, "exit_status")

\* C18, amended: if the exit_status attribute is present then the lock
\* removal has been attempted after the child terminated: LOCK is absent,
\* or os.remove failed, the failure was swallowed and LOCK still holds the
\* child's pid; and if the stopped attribute is present then exit_status is
\* present.
C18_FinalAttrsAfterLockRemoval ==
    \A o \in Operations :
        /\ HasAttr(o, "exit_status") =>
            /\ LockRemovalDone(o)
            /\ ProcOf(o).state = "Terminated"
            /\ LockOf(o) \in {None, LockText(ops[o].proc[1])}
        /\ HasAttr(o, "stopped") => HasAttr(o, "exit_status")

\* C18's case: run() has returned with both attributes written after a
\* lock removal that failed and was swallowed
C18_Witness ==
    \E o \in Operations :
        /\ HasReturned(o)
        /\ HasAttr(o, "exit_status") /\ HasAttr(o, "stopped")
        /\ LockOf(o) = LockText(ops[o].proc[1])

\* C19 as stated, over finite runs: exit_status and stopped are written and
\* run() returns only once the child has exited; and once the child of a
\* run whose steps up to the spawn and the lock write succeeded has exited
\* and no call of run() is in progress any more, run() has returned, LOCK
\* is removed, and exit_status and stopped are written.
C19_RunEndsWithChild ==
    \A o \in Operations :
        /\ (HasReturned(o) \/ HasAttr(o, "exit_status") \/ HasAttr(o, "stopped"))
                => Spawned(o) /\ ProcOf(o).state = "Terminated"
        /\ ( /\ Spawned(o)
             /\ ~RaisedAt(o, "lock_open") /\ ~RaisedAt(o, "lock_write")
             /\ ProcOf(o).state = "Terminated"
             /\ pc[o] = Idle )
                => /\ HasReturned(o)
                   /\ LockOf(o) = None
                   /\ HasAttr(o, "exit_status") /\ HasAttr(o, "stopped")

=============================================================================
